---- MODULE Spec2Model ----
(***************************************************************************)
(* A model of deepsensor/plot.py.  Every plotting function is a call that  *)
(* takes its arguments (variable call), runs, and leaves what it created   *)
(* and drew (variable res): the subplot grid, the images, scatters and     *)
(* texts in drawing order, and the exception that ended the call, if any.  *)
(* Arrays are sequences; Python's 0-based indices are kept and translated  *)
(* where a sequence is read (At0).                                         *)
(***************************************************************************)
EXTENDS Integers, Sequences, FiniteSets, TLC

VARIABLES pc, call, res

vars == <<pc, call, res>>

\* ------------------------------------------------------------------ bounds
\* context_encoding: number of context sets of the task loader, and the
\* largest per-set dimensionality (context_dims entry).
MaxSets == 3
MaxDim == 2

\* ------------------------------------------------------- generic helpers
\* seq[i] with Python's 0-based index.
At0(seq, i) == seq[i + 1]

\* range(n) as a sequence: <<0, 1, ..., n-1>>.
Range0(n) == [k \in 1..n |-> k - 1]

\* Python's max() of a non-empty sequence of integers.
SeqMax(s) == CHOOSE m \in {s[k] : k \in DOMAIN s} : \A k \in DOMAIN s : s[k] <= m

\* Python's min(a, b).
Min2(a, b) == IF a <= b THEN a ELSE b

\* The sequences of length 1..maxLen over S without a repeated element.
InjSeqs(S, maxLen) ==
    UNION {{s \in [1..n -> S] : \A i, j \in 1..n : i # j => s[i] # s[j]} : n \in 1..maxLen}

NoRes == [status |-> "none"]

\* ------------------------------------------------------- context_encoding
\* The encoding tensor after the batch is selected: its channel axis, each
\* channel tagged <<set, position>> (position 0 is the set's density
\* channel), for all context sets of the task in the loader's order.
EncodingTensor(context_dims) ==
    LET RECURSIVE Concat(_)
        Concat(s) ==
            IF s = 0 THEN <<>>
            ELSE Concat(s - 1) \o [v \in 1..(context_dims[s] + 1) |-> <<s - 1, v - 1>>]
    IN Concat(Len(context_dims))

\* Lines 81-84: an int becomes a one-element list, None becomes all sets.
ResolveSetIdxs(sel, context_dims) ==
    IF sel.kind = "int" THEN <<sel.v[1]>>
    ELSE IF sel.kind = "None" THEN Range0(Len(context_dims))
    ELSE sel.v

ContextVarIDSetSizes_NoDensity(context_dims, idxs) ==
    [k \in 1..Len(idxs) |-> At0(context_dims, idxs[k])]

\* Lines 86-88: one more than the dimensionality of each selected set.
ContextVarIDSetSizes(context_dims, idxs) ==
    [k \in 1..Len(idxs) |-> At0(context_dims, idxs[k]) + 1]

BlankAxis == [state |-> "blank", channel |-> <<>>, title |-> <<>>]
OffAxis == [state |-> "off", channel |-> <<>>, title |-> <<>>]

\* Lines 113-118 with titles = None: the title of the image at var_i.
CellTitle(ctx_i, var_i) ==
    IF var_i = 0 THEN <<"Density", ctx_i>> ELSE <<"var", ctx_i, var_i - 1>>

\* Lines 105-138: the inner loop over the channels of set ctx_i.  axes[ctx_i,
\* var_i] outside the grid and encoding_tensor[channel_i] outside the tensor
\* raise IndexError, which ends the call.
RECURSIVE DrawVars(_, _, _, _, _)
DrawVars(st, tensor, ctx_i, var_i, size) ==
    IF st.status # "ok" \/ var_i >= size THEN st
    ELSE IF <<ctx_i, var_i>> \notin DOMAIN st.axes
        THEN [st EXCEPT !.status = "IndexError"]
    ELSE IF st.channel_i >= Len(tensor)
        THEN [st EXCEPT !.status = "IndexError"]
    ELSE DrawVars(
            [st EXCEPT
                !.axes[<<ctx_i, var_i>>] =
                    [state |-> "image", channel |-> At0(tensor, st.channel_i),
                     title |-> CellTitle(ctx_i, var_i)],
                !.images = Append(@, [ctx_i |-> ctx_i, var_i |-> var_i,
                                      channel_i |-> st.channel_i,
                                      channel |-> At0(tensor, st.channel_i)]),
                !.channel_i = @ + 1],
            tensor, ctx_i, var_i + 1, size)

\* Lines 139-142: the cells of row ctx_i from column size on are switched off.
RECURSIVE HideUnused(_, _, _, _)
HideUnused(st, ctx_i, var_i, ncols) ==
    IF st.status # "ok" \/ var_i >= ncols THEN st
    ELSE IF <<ctx_i, var_i>> \notin DOMAIN st.axes
        THEN [st EXCEPT !.status = "IndexError"]
    ELSE HideUnused([st EXCEPT !.axes[<<ctx_i, var_i>>] = OffAxis],
                    ctx_i, var_i + 1, ncols)

\* Lines 99-142: the loop over the selected sets, in the selection's order.
RECURSIVE PlotSets(_, _, _, _, _)
PlotSets(st, tensor, context_dims, idxs, k) ==
    IF st.status # "ok" \/ k > Len(idxs) THEN st
    ELSE LET ctx_i == idxs[k]
             size == At0(context_dims, ctx_i) + 1
             drawn == DrawVars(st, tensor, ctx_i, 0, size)
         IN PlotSets(HideUnused(drawn, ctx_i, size, st.ncols),
                     tensor, context_dims, idxs, k + 1)

\* Lines 78-148: the whole call.
ContextEncodingResult(c) ==
    LET idxs == ResolveSetIdxs(c.context_set_idxs, c.context_dims)
        sizes == ContextVarIDSetSizes(c.context_dims, idxs)
        ncols == SeqMax(sizes)
        nrows == Len(idxs)
        st0 == [status |-> "ok", nrows |-> nrows, ncols |-> ncols,
                axes |-> [cell \in (0..(nrows - 1)) \X (0..(ncols - 1)) |-> BlankAxis],
                images |-> <<>>, channel_i |-> 0]
    IN PlotSets(st0, EncodingTensor(c.context_dims), c.context_dims, idxs, 1)

\* The set-index selections of a loader with n context sets.
SetSelections(n) ==
    {[kind |-> "None", v |-> <<>>]}
    \cup {[kind |-> "int", v |-> <<i>>] : i \in 0..(n - 1)}
    \cup {[kind |-> "list", v |-> s] : s \in InjSeqs(0..(n - 1), n)}

\* The calls of context_encoding: a loader with 1..MaxSets context sets of
\* dimensionality 1..MaxDim, and a selection of them.
ContextEncodingCall ==
    \E n \in 1..MaxSets : \E d \in [1..n -> 1..MaxDim], s \in SetSelections(n) :
        call = [op |-> "context_encoding", context_dims |-> d, context_set_idxs |-> s]

context_encoding ==
    /\ pc = "ready"
    /\ call.op = "context_encoding"
    /\ res' = ContextEncodingResult(call)
    /\ pc' = "done"
    /\ UNCHANGED call

\* -------------------------------------------------------- offgrid_context
\* offgrid_context: the task's context and target sets, and the axes drawn on.
MaxCtxSets == 6
MaxTgtSets == 1
MaxAxes == 2

\* Raw-unit bounds of the two coordinate axes held by the data processor.
X1Min == 50
X1Range == 10
X2Min == -20
X2Range == 30

\* Coordinate arrays of shape (2, N): <<x1 row, x2 row>>, normalised units.
PointArrays ==
    { << <<0>>, <<1>> >>, << <<1>>, <<0>> >>, << <<0, 1>>, <<1, 1>> >> }

\* Another batch of the same shape as A, at other coordinates.
OtherBatch(A) == [r \in 1..Len(A) |-> [k \in 1..Len(A[r]) |-> A[r][k] + 2]]

\* One set's coordinates in task["X_c"] or task["X_t"]: a tuple of the two
\* axes' coordinate vectors (gridded), a (2, N) array or a batched (B, 2, N)
\* array.
SetCoords(gridded, batched, A) ==
    IF gridded THEN [gridded |-> TRUE, ndim |-> 1, data |-> A]
    ELSE IF batched THEN [gridded |-> FALSE, ndim |-> 3, data |-> <<A, OtherBatch(A)>>]
    ELSE [gridded |-> FALSE, ndim |-> 2, data |-> A]

\* A task with nC context and nT target sets; set g of the combined list is
\* gridded (none when g = -1).
MakeTask(nC, nT, g, batched, A) ==
    [X_c |-> [i \in 1..nC |-> SetCoords(i - 1 = g, batched, A)],
     X_t |-> [i \in 1..nT |-> SetCoords(nC + i - 1 = g, batched, A)]]

Tasks(maxC, maxT) ==
    UNION {{MakeTask(nC, nT, g, b, A) :
                g \in -1..(nC + nT - 1), b \in BOOLEAN, A \in PointArrays} :
           nC \in 0..maxC, nT \in 0..maxT}

\* data_processor.map_x1_and_x2(x1, x2, unnorm=True) and map_coord_array(X,
\* unnorm=True): each axis is mapped back to its raw range.
UnnormX1(x) == X1Min + x * X1Range
UnnormX2(x) == X2Min + x * X2Range
MapCoordArray(X) ==
    << [k \in 1..Len(X[1]) |-> UnnormX1(X[1][k])],
       [k \in 1..Len(X[2]) |-> UnnormX2(X[2][k])] >>

Flip_NoReverse(X) == X

\* X[::-1]: the sequence reversed.
Flip(X) == [k \in 1..Len(X) |-> X[Len(X) + 1 - k]]

\* Lines 195-198: the default palettes.
DefaultMarkers == <<"o", "v", "s", "^", "D">>
DefaultColors == <<"k", "b", "r", "g", "y">>

\* Lines 228-236 with task_loader = None.
SetLabel(plot_target, set_i, nC) ==
    IF plot_target /\ set_i < nC THEN <<"Context set", set_i>>
    ELSE IF plot_target /\ set_i >= nC THEN <<"Target set", set_i - nC>>
    ELSE <<>>

\* Lines 238-246: the scatter on every axis.  markers[set_i] and colors[set_i]
\* are read when the first scatter call is built; an index past the end of
\* the palette string raises IndexError.
ScatterOnAxes(st, nAxes, X, set_i, markers, colors, label) ==
    IF set_i >= Len(markers) \/ set_i >= Len(colors)
    THEN [st EXCEPT !.status = "IndexError"]
    ELSE [st EXCEPT !.scatters = @ \o
            [a \in 1..nAxes |->
                [ax |-> a - 1, x |-> X[1], y |-> X[2],
                 marker |-> At0(markers, set_i), color |-> At0(colors, set_i),
                 label |-> label, set_i |-> set_i]]]

\* Lines 213-246: the loop over the sets, set_i counting from 0.
RECURSIVE OffgridLoop(_, _, _, _, _, _, _, _)
OffgridLoop(st, Xs, set_i, nAxes, has_dp, plot_target, sel, nC) ==
    IF st.status # "ok" \/ set_i >= Len(Xs) THEN st
    ELSE LET X0 == At0(Xs, set_i)
             skipped == \/ (sel.kind # "None" /\ \A k \in DOMAIN sel.v : sel.v[k] # set_i)
                        \/ X0.gridded
             X1 == IF X0.ndim = 3 THEN X0.data[1] ELSE X0.data
             X2 == IF has_dp THEN MapCoordArray(X1) ELSE X1
             X3 == Flip(X2)
             next == IF skipped THEN st
                     ELSE ScatterOnAxes(st, nAxes, X3, set_i, DefaultMarkers,
                                        DefaultColors, SetLabel(plot_target, set_i, nC))
         IN OffgridLoop(next, Xs, set_i + 1, nAxes, has_dp, plot_target, sel, nC)

\* Lines 208-211.
PlottedSets(task, plot_target) ==
    IF plot_target THEN task.X_c \o task.X_t ELSE task.X_c

\* Lines 195-249: the whole call, drawing on top of what st already holds.
OffgridContext(st, nAxes, task, has_dp, plot_target, add_legend, sel) ==
    LET sel1 == IF sel.kind = "int" THEN [kind |-> "list", v |-> sel.v] ELSE sel
        after == OffgridLoop(st, PlottedSets(task, plot_target), 0, nAxes, has_dp,
                             plot_target, sel1, Len(task.X_c))
    IN IF after.status = "ok" /\ add_legend THEN [after EXCEPT !.legend = TRUE]
       ELSE after

NoDrawing == [status |-> "ok", scatters |-> <<>>, legend |-> FALSE]

\* The selections offgrid_context is called with: None, an int, a two-element
\* list.
OffgridSelections(n) ==
    {[kind |-> "None", v |-> <<>>]}
    \cup {[kind |-> "int", v |-> <<i>>] : i \in 0..(n - 1)}
    \cup {[kind |-> "list", v |-> <<i, i + 1>>] : i \in 0..(n - 2)}

OffgridContextCall ==
    \E t \in Tasks(MaxCtxSets, MaxTgtSets), a \in 1..MaxAxes, dp \in BOOLEAN,
       pt \in BOOLEAN :
        \E s \in OffgridSelections(Len(t.X_c) + Len(t.X_t)) :
            call = [op |-> "offgrid_context", naxes |-> a, task |-> t, has_dp |-> dp,
                    plot_target |-> pt, context_set_idxs |-> s]

offgrid_context ==
    /\ pc = "ready"
    /\ call.op = "offgrid_context"
    /\ res' = OffgridContext(NoDrawing, call.naxes, call.task, call.has_dp,
                             call.plot_target, TRUE, call.context_set_idxs)
    /\ pc' = "done"
    /\ UNCHANGED call

\* ------------------------------------------- offgrid_context_observations
\* The variables of the selected context set.
MaxVars == 2

\* Observation values are fixed-point numbers in units of 10^-5 (314159 is
\* 3.14159); the data processor's map_array(Y, var_ID, unnorm=True) maps a
\* normalised value y to YMean + y * YStd.
YMean == 314159
YStd == 27183
MapArray(Y) == [k \in 1..Len(Y) |-> YMean + Y[k] * YStd]

\* The normalised values of an N-point set: consecutive entries of YCycle
\* from position y0 on.
YCycle == <<0, 1, 2, -12>>
YRow(y0, N) == [k \in 1..N |-> YCycle[((y0 + k - 2) % Len(YCycle)) + 1]]

Pow10(n) == IF n = 0 THEN 1 ELSE IF n = 1 THEN 10 ELSE IF n = 2 THEN 100
            ELSE IF n = 3 THEN 1000 ELSE IF n = 4 THEN 10000 ELSE 100000

DigitChars == <<"0", "1", "2", "3", "4", "5", "6", "7", "8", "9">>
DigitValue(ch) == CHOOSE d \in 0..9 : DigitChars[d + 1] = ch
IsDigit(ch) == \E d \in 0..9 : DigitChars[d + 1] = ch

\* The decimal digits of n >= 0.
RECURSIVE NatChars(_)
NatChars(n) == IF n < 10 THEN <<DigitChars[n + 1]>>
               ELSE NatChars(n \div 10) \o <<DigitChars[(n % 10) + 1]>>

\* The decimal digits of n >= 0, zero-padded on the left to width w.
RECURSIVE PadChars(_, _)
PadChars(n, w) == IF w = 0 THEN <<>>
                  ELSE PadChars(n \div 10, w - 1) \o <<DigitChars[(n % 10) + 1]>>

\* format(value, ".<prec>f") of a float: the value rounded to prec decimals
\* (ties to even), a minus sign for a negative value, no point when prec = 0.
FormatFixed(value, prec) ==
    LET mag == IF value < 0 THEN -value ELSE value
        unit == Pow10(5 - prec)
        q == mag \div unit
        r == mag % unit
        rounded == IF 2 * r > unit THEN q + 1
                   ELSE IF 2 * r < unit THEN q
                   ELSE IF q % 2 = 0 THEN q ELSE q + 1
        whole == NatChars(rounded \div Pow10(prec))
        frac == IF prec = 0 THEN <<>> ELSE <<".">> \o PadChars(rounded % Pow10(prec), prec)
    IN (IF value < 0 THEN <<"-">> ELSE <<>>) \o whole \o frac

\* The position of the first "}" of fmt at or after i (0 when there is none).
RECURSIVE CloseBrace(_, _)
CloseBrace(fmt, i) ==
    IF i > Len(fmt) THEN 0 ELSE IF fmt[i] = "}" THEN i ELSE CloseBrace(fmt, i + 1)

\* format_str.format(value) from position i on: "{{" and "}}" are literal
\* braces, "{:.<d>f}" is the value in fixed notation, any other character is
\* copied; a brace that opens or closes no such field raises ValueError.
RECURSIVE StrFormat(_, _, _)
StrFormat(fmt, i, value) ==
    IF i > Len(fmt) THEN [ok |-> TRUE, text |-> <<>>]
    ELSE LET ch == fmt[i]
             double == i < Len(fmt) /\ fmt[i + 1] = ch
             j == CloseBrace(fmt, i)
             field == SubSeq(fmt, i + 1, j - 1)
             isFixed == /\ j > 0
                        /\ Len(field) = 4
                        /\ field[1] = ":" /\ field[2] = "." /\ IsDigit(field[3])
                        /\ field[4] = "f"
             rest == IF ch \in {"{", "}"} /\ double THEN StrFormat(fmt, i + 2, value)
                     ELSE IF ch = "{" /\ isFixed THEN StrFormat(fmt, j + 1, value)
                     ELSE StrFormat(fmt, i + 1, value)
             piece == IF ch = "{" /\ ~double /\ isFixed
                      THEN FormatFixed(value, DigitValue(field[3]))
                      ELSE <<ch>>
         IN IF ch \in {"{", "}"} /\ ~double /\ ~(ch = "{" /\ isFixed)
            THEN [ok |-> FALSE, text |-> <<>>]
            ELSE [ok |-> rest.ok, text |-> piece \o rest.text]

NoneFormat == [given |-> FALSE, v |-> <<>>]

\* Lines 293-294: no format string means the empty format string.
ResolveFormat(format_str) == IF format_str.given THEN format_str.v ELSE <<>>

\* The format strings passed: None, "%.1f", "{:.1f}", "{:.2f}", "{:.0f}".
FormatStrings ==
    { NoneFormat,
      [given |-> TRUE, v |-> <<"%", ".", "1", "f">>],
      [given |-> TRUE, v |-> <<"{", ":", ".", "1", "f", "}">>],
      [given |-> TRUE, v |-> <<"{", ":", ".", "2", "f", "}">>],
      [given |-> TRUE, v |-> <<"{", ":", ".", "0", "f", "}">>] }

NoneExtent == [given |-> FALSE, v |-> <<>>]

\* The extents passed: None, and a box in raw units around x1 = X1Min.
Extents == { NoneExtent, [given |-> TRUE, v |-> <<X1Min - 1, X1Min + 1, -100, 100>>] }

\* Lines 316-320.
InExtent(extent, x_c) ==
    \/ ~extent.given
    \/ /\ extent.v[1] <= x_c[1] /\ x_c[1] <= extent.v[2]
       /\ extent.v[3] <= x_c[2] /\ x_c[2] <= extent.v[4]

\* Lines 299-301.
SingleVariable(var_ID) == Len(var_ID) = 1

NotGridded_Unchecked(X_c) == TRUE

\* Lines 305-307.
NotGridded(X_c) == ~X_c.gridded

\* Lines 315-322: the loop over the observations; each one inside the extent
\* is written on every axis at its reversed coordinates.
RECURSIVE TextLoop(_, _, _, _, _, _, _)
TextLoop(st, X_c, Y_c, k, nAxes, fmt, extent) ==
    IF st.status # "ok" \/ k > Len(Y_c) \/ k > Len(X_c[1]) THEN st
    ELSE LET x_c == <<X_c[1][k], X_c[2][k]>>
             at == Flip(x_c)
             s == StrFormat(fmt, 1, Y_c[k])
             next == IF ~InExtent(extent, x_c) THEN st
                     ELSE IF ~s.ok THEN [st EXCEPT !.status = "ValueError"]
                     ELSE [st EXCEPT !.texts = @ \o
                             [a \in 1..nAxes |->
                                 [ax |-> a - 1, x |-> at[1], y |-> at[2], s |-> s.text,
                                  obs_i |-> k - 1, value |-> Y_c[k]]]]
         IN TextLoop(next, X_c, Y_c, k + 1, nAxes, fmt, extent)

\* Lines 288-322: the whole call.
OffgridContextObservations(c) ==
    LET st0 == [status |-> "ok", texts |-> <<>>]
        failed == [st0 EXCEPT !.status = "AssertionError"]
    IN IF ~SingleVariable(c.var_ID) THEN failed
       ELSE IF ~NotGridded(c.X_c) THEN failed
       ELSE IF c.Y_c.ndim # 2 \/ c.Y_c.shape0 # 1 THEN failed
       ELSE TextLoop(st0, MapCoordArray(c.X_c.data), MapArray(c.Y_c.row), 1, c.naxes,
                     ResolveFormat(c.format_str), c.extent)

\* The calls: the selected context set has nv variables, coordinates A (or is
\* gridded) and one row of values per variable; a batched task has 3-D values.
OffgridContextObservationsCall ==
    \E a \in 1..MaxAxes, nv \in 1..MaxVars, g \in BOOLEAN, A \in PointArrays,
       y0 \in 1..Len(YCycle), yd \in {2, 3}, f \in FormatStrings, e \in Extents :
        call = [op |-> "offgrid_context_observations", naxes |-> a,
                var_ID |-> [v \in 1..nv |-> v - 1],
                X_c |-> SetCoords(g, FALSE, A),
                Y_c |-> [ndim |-> yd, shape0 |-> nv, row |-> YRow(y0, Len(A[1]))],
                format_str |-> f, extent |-> e]

offgrid_context_observations ==
    /\ pc = "ready"
    /\ call.op = "offgrid_context_observations"
    /\ res' = OffgridContextObservations(call)
    /\ pc' = "done"
    /\ UNCHANGED call

\* ------------------------------------------------------------- placements
\* The placement tables: row i holds the (x1, x2) of the candidate chosen at
\* iteration i, in raw units.
PlacementTables ==
    { << <<60, 10>> >>,
      << <<52, -5>>, <<57, 8>> >>,
      << <<51, 0>>, <<55, -10>>, <<59, 4>> >> }

\* X_new_df.values.T: the (N, 2) table as a (2, N) array.
ValuesT(rows) == << [k \in 1..Len(rows) |-> rows[k][1]], [k \in 1..Len(rows) |-> rows[k][2]] >>

\* ax.scatter(*X, c="r", linewidths=0.5): the candidates, in red.
CandidateScatter(a, X) ==
    [ax |-> a, x |-> X[1], y |-> X[2], marker |-> "o", color |-> "r",
     label |-> <<>>, set_i |-> -1]

\* Lines 563-575: the candidates, then the context points on the same axis.
Placements(c) ==
    LET X == Flip(ValuesT(c.X_new_df))
        st1 == [NoDrawing EXCEPT !.scatters = <<CandidateScatter(0, X)>>]
    IN OffgridContext(st1, 1, c.task, TRUE, FALSE, TRUE, [kind |-> "None", v |-> <<>>])

PlacementsCall ==
    \E t \in Tasks(MaxCtxSets, 0), df \in PlacementTables :
        call = [op |-> "placements", task |-> t, X_new_df |-> df]

placements ==
    /\ pc = "ready"
    /\ call.op = "placements"
    /\ res' = Placements(call)
    /\ pc' = "done"
    /\ UNCHANGED call

\* --------------------------------------------------------- acquisition_fn
\* acquisition_fn: the values along the column dimension and max_ncol.
MaxColVals == 7
MaxNcol == 5

\* data_processor.raw_spatial_coord_names.
RawSpatialCoordNames == <<"x1", "x2">>

\* The dimensions an acquisition array can have besides the spatial ones.
ExtraDimNames == {"iteration", "time", "sample", "depth"}

SeqToSet(q) == {q[k] : k \in DOMAIN q}

\* q without the elements that fail Keep, in q's order.
RECURSIVE FilterSeq(_, _)
FilterSeq(q, keep) ==
    IF q = <<>> THEN <<>>
    ELSE (IF Head(q) \in keep THEN <<Head(q)>> ELSE <<>>) \o FilterSeq(Tail(q), keep)

ValidAvgDims_AnyDim == ExtraDimNames

\* Line 630.
ValidAvgDims == {"time", "sample"}

\* Lines 628-629: the dimensions that are neither the column dimension nor
\* spatial, in the array's order.
NonPlotDims(dims, col_dim) ==
    FilterSeq(dims, SeqToSet(dims) \ ({col_dim} \cup SeqToSet(RawSpatialCoordNames)))

\* Lines 631-636: the first dimension that cannot be averaged over (<<>> when
\* there is none).
FirstInvalidDim(non_plot_dims) ==
    LET bad == FilterSeq(non_plot_dims, SeqToSet(non_plot_dims) \ ValidAvgDims)
    IN IF bad = <<>> THEN <<>> ELSE <<Head(bad)>>

\* The values of the column dimension: n consecutive iterations from `first`,
\* or n values of another coordinate.
ColVals(col_dim, n, first) ==
    IF col_dim = "iteration" THEN [k \in 1..n |-> first + k - 1]
    ELSE [k \in 1..n |-> 100 + k]

\* Line 647.
NumCols(max_ncol, n_col_vals) == Min2(max_ncol, n_col_vals)

\* Lines 649-652: int(np.ceil(n_col_vals / ncols)) when the values do not fit
\* one row.
NumRows(n_col_vals, ncols) ==
    IF n_col_vals > ncols
    THEN (IF n_col_vals % ncols = 0 THEN n_col_vals \div ncols
          ELSE (n_col_vals \div ncols) + 1)
    ELSE 1

LocSlice_Exclusive(rows, hi) == SubSeq(rows, 1, Min2(Len(rows), hi))

\* X_new_df.loc[slice(0, hi)]: the rows whose index label lies in 0..hi (a
\* label slice includes its upper end); row k of the table has label k - 1.
LocSlice(rows, hi) == SubSeq(rows, 1, Min2(Len(rows), hi + 1))

\* Lines 669-698: one panel per column value on axes[i], each with the
\* candidates up to its iteration.
RECURSIVE PanelLoop(_, _, _, _, _, _, _)
PanelLoop(st, col_vals, i, col_dim, iteration, iter_size, X_new_df) ==
    IF st.status # "ok" \/ i >= Len(col_vals) THEN st
    ELSE IF i >= st.nrows * st.ncols THEN [st EXCEPT !.status = "IndexError"]
    ELSE IF col_dim # "iteration" /\ iter_size # 1
    THEN [st EXCEPT !.status = "AssertionError",
                    !.panels = Append(@, [ax |-> i, col_val |-> At0(col_vals, i)])]
    ELSE LET col_val == At0(col_vals, i)
             upto == IF col_dim = "iteration" THEN col_val ELSE iteration
             X == Flip(ValuesT(LocSlice(X_new_df, upto)))
         IN PanelLoop(
                [st EXCEPT
                    !.panels = Append(@, [ax |-> i, col_val |-> col_val]),
                    !.scatters = Append(@, CandidateScatter(i, X))],
                col_vals, i + 1, col_dim, iteration, iter_size, X_new_df)

\* Lines 627-704: the whole call.
AcquisitionFn(c) ==
    LET non_plot_dims == NonPlotDims(c.dims, c.col_dim)
        invalid == FirstInvalidDim(non_plot_dims)
        col_vals == ColVals(c.col_dim, c.n_col_vals, c.iteration)
        n_col_vals == Len(col_vals)
        ncols == NumCols(c.max_ncol, n_col_vals)
        nrows == NumRows(n_col_vals, ncols)
        st0 == [status |-> "ok", error_dim |-> <<>>, averaged |-> <<>>, fig |-> FALSE,
                nrows |-> 0, ncols |-> 0, panels |-> <<>>, scatters |-> <<>>,
                legend |-> FALSE, removed |-> {}]
        st1 == [st0 EXCEPT !.averaged = non_plot_dims, !.fig = TRUE,
                           !.nrows = nrows, !.ncols = ncols]
        st2 == PanelLoop(st1, col_vals, 0, c.col_dim, c.iteration, c.n_iterations,
                        c.X_new_df)
        st3 == IF st2.status # "ok" THEN st2
               ELSE OffgridContext(st2, nrows * ncols, c.task, TRUE, FALSE, TRUE,
                                   [kind |-> "None", v |-> <<>>])
    IN IF invalid # <<>>
       THEN [st0 EXCEPT !.status = "ValueError", !.error_dim = invalid]
       ELSE IF st3.status # "ok" THEN st3
       ELSE [st3 EXCEPT !.removed = n_col_vals..(nrows * ncols - 1)]

\* The tasks acquisition_fn is called with: 0..MaxCtxSets off-grid context
\* sets, or two sets of which the first is gridded.
AcquisitionTasks ==
    {MakeTask(nC, 0, -1, FALSE, << <<0, 1>>, <<1, 1>> >>) : nC \in 0..MaxCtxSets}
    \cup {MakeTask(2, 0, 0, FALSE, << <<0, 1>>, <<1, 1>> >>)}

\* The calls: the array's dimensions are up to three extra ones, in any order,
\* followed by the spatial ones; the column dimension is one of them.  The
\* array holds one iteration, `iteration`, when "iteration" is not a dimension,
\* and n_iterations of them from `iteration` on when it is.
AcquisitionFnCall ==
    \E extra \in InjSeqs(ExtraDimNames, 3), cd \in {"iteration", "time"},
       n \in 1..MaxColVals, m \in 1..MaxNcol, t \in AcquisitionTasks,
       df \in PlacementTables, it \in {0, 1}, ni \in {1, 2} :
        /\ cd \in SeqToSet(extra)
        /\ ("iteration" \notin SeqToSet(extra) \/ cd = "iteration") => ni = 1
        /\ ("iteration" \in SeqToSet(extra) /\ cd # "iteration") => it = 0
        /\ call = [op |-> "acquisition_fn", task |-> t, dims |-> extra \o RawSpatialCoordNames,
                   col_dim |-> cd, n_col_vals |-> n, max_ncol |-> m,
                   iteration |-> it,
                   n_iterations |-> IF cd = "iteration" THEN n ELSE ni,
                   X_new_df |-> df]

acquisition_fn ==
    /\ pc = "ready"
    /\ call.op = "acquisition_fn"
    /\ res' = AcquisitionFn(call)
    /\ pc' = "done"
    /\ UNCHANGED call

\* ----------------------------------------------------------- feature_maps
\* feature_maps: the depth of the U-Net, its channels and the sample size.
MaxLayers == 3
MaxChannels == 3
MaxPerLayer == 4

Reversed_InOrder(q) == q

\* reversed(q).
Reversed(q) == [k \in 1..Len(q) |-> q[Len(q) + 1 - k]]

\* Lines 454-488: the outputs unet_forward records, in order.  Each record
\* names the layer applied, the recorded output it is applied to (`input`, a
\* position in feature_maps, -1 for the encoding x) and the down-path output
\* concatenated in front of it (`skip`, a position in hs, -1 for none).  hs
\* holds the down-path outputs; the up path pairs the reversed hs[:-1] with the
\* reversed after_turn_layers[:-1] and activations[:-1].
UnetForward(L, channels, out_channels) ==
    LET down == [i \in 1..L |-> [kind |-> "down", layer |-> i - 1, input |-> i - 2,
                                 skip |-> -1, n_features |-> channels]]
        hs == Range0(L)
        turn == [kind |-> "turn", layer |-> L - 1, input |-> At0(hs, Len(hs) - 1),
                 skip |-> -1, n_features |-> channels]
        h_prev == Reversed(SubSeq(hs, 1, L - 1))
        layers == Reversed(SubSeq(Range0(L), 1, L - 1))
        up == [k \in 1..Min2(Len(h_prev), Len(layers)) |->
                  [kind |-> "up", layer |-> layers[k], input |-> L + k - 1,
                   skip |-> h_prev[k], n_features |-> channels]]
        final == [kind |-> "final", layer |-> -1, input |-> L + Len(up),
                  skip |-> -1, n_features |-> out_channels]
    IN down \o <<turn>> \o up \o <<final>>

\* Line 496.
NFeaturesToPlot(n_features_per_layer, n_features) ==
    Min2(n_features_per_layer, n_features)

RngChoice_WithReplacement(n, k) == [1..k -> 0..(n - 1)]

\* Line 497: rng.choice(n, k, replace=False) returns k distinct indices below
\* n, in an order that depends on the seed.
RngChoice(n, k) ==
    {q \in [1..k -> 0..(n - 1)] : \A i, j \in 1..k : i # j => q[i] # q[j]}

FeatureMapsCall ==
    \E L \in 1..MaxLayers, ch \in 1..MaxChannels, oc \in 1..MaxChannels,
       k \in 1..MaxPerLayer :
        call = [op |-> "feature_maps", L |-> L, channels |-> ch, out_channels |-> oc,
                n_features_per_layer |-> k]

\* Lines 447-493: the forward pass is replayed and the generator is seeded.
feature_maps_forward ==
    /\ pc = "ready"
    /\ call.op = "feature_maps"
    /\ res' = [status |-> "ok",
               feature_maps |-> UnetForward(call.L, call.channels, call.out_channels),
               layer_i |-> 0, feature_idxs |-> <<>>, figs |-> <<>>]
    /\ pc' = "layers"
    /\ UNCHANGED call

\* Lines 494-526: one iteration of the loop over the recorded layers.  Asking
\* the generator for more distinct indices than there are raises ValueError.
feature_maps_layer ==
    /\ pc = "layers"
    /\ res.layer_i < Len(res.feature_maps)
    /\ LET n_features == At0(res.feature_maps, res.layer_i).n_features
           n_features_to_plot == NFeaturesToPlot(call.n_features_per_layer, n_features)
       IN IF RngChoice(n_features, n_features_to_plot) = {}
          THEN /\ res' = [res EXCEPT !.status = "ValueError"]
               /\ pc' = "done"
          ELSE /\ \E feature_idxs \in RngChoice(n_features, n_features_to_plot) :
                    res' = [res EXCEPT
                        !.feature_idxs = feature_idxs,
                        !.figs = Append(@, [layer_i |-> res.layer_i,
                                            ncols |-> n_features_to_plot,
                                            n_images |-> Min2(Len(feature_idxs),
                                                              n_features_to_plot)]),
                        !.layer_i = @ + 1]
               /\ pc' = "layers"
    /\ UNCHANGED call

\* Line 528.
feature_maps_return ==
    /\ pc = "layers"
    /\ res.layer_i = Len(res.feature_maps)
    /\ pc' = "done"
    /\ UNCHANGED <<call, res>>

\* ------------------------------------------------------------ specification
Init ==
    /\ pc = "ready"
    /\ res = NoRes
    /\ \/ ContextEncodingCall
       \/ OffgridContextCall
       \/ OffgridContextObservationsCall
       \/ PlacementsCall
       \/ AcquisitionFnCall
       \/ FeatureMapsCall

Next ==
    \/ context_encoding
    \/ offgrid_context
    \/ offgrid_context_observations
    \/ placements
    \/ acquisition_fn
    \/ feature_maps_forward
    \/ feature_maps_layer
    \/ feature_maps_return

Spec == Init /\ [][Next]_vars

\* ------------------------------------------------------------------ claims
Done(op) == pc = "done" /\ call.op = op

\* The sets a context_encoding call selects, read off its arguments.
CE_Selected ==
    IF call.context_set_idxs.kind = "None" THEN 0..(Len(call.context_dims) - 1)
    ELSE {call.context_set_idxs.v[k] : k \in DOMAIN call.context_set_idxs.v}

CE_SelectionSize ==
    IF call.context_set_idxs.kind = "None" THEN Len(call.context_dims)
    ELSE IF call.context_set_idxs.kind = "int" THEN 1
    ELSE Len(call.context_set_idxs.v)

\* C1: context_encoding creates a grid whose number of rows is the number of
\* selected sets and whose number of columns is the largest context_dims[s] + 1
\* over the selected sets s, for None, an int and a list of indices.
C1_GridShape ==
    Done("context_encoding") =>
        /\ res.nrows = CE_SelectionSize
        /\ \E s \in CE_Selected : res.ncols = At0(call.context_dims, s) + 1
        /\ \A s \in CE_Selected : res.ncols >= At0(call.context_dims, s) + 1
        /\ DOMAIN res.axes = (0..(res.nrows - 1)) \X (0..(res.ncols - 1))

\* C1's case: a list selecting two of three sets whose widths differ.
C1_Witness ==
    /\ Done("context_encoding")
    /\ call.context_set_idxs.kind = "list"
    /\ Len(call.context_dims) = 3
    /\ res.nrows = 2
    /\ \E s, t \in CE_Selected : At0(call.context_dims, s) < At0(call.context_dims, t)
    /\ res.ncols = 3

\* C2: every image context_encoding draws for set s at variable position v
\* shows the encoding-tensor channel of set s at position v.
C2_ChannelBelongsToSet ==
    Done("context_encoding") =>
        \A k \in DOMAIN res.images :
            res.images[k].channel = <<res.images[k].ctx_i, res.images[k].var_i>>

\* C10: context_encoding completes without an index error, each selected set
\* has a row of its own holding its channel images followed by switched-off
\* cells, and no cell of the grid is left blank.
C10_EveryCellDrawnOrHidden ==
    Done("context_encoding") =>
        /\ res.status = "ok"
        /\ \A cell \in DOMAIN res.axes : res.axes[cell].state \in {"image", "off"}
        /\ \E row \in [CE_Selected -> 0..(res.nrows - 1)] :
            /\ \A s, t \in CE_Selected : s # t => row[s] # row[t]
            /\ \A s \in CE_Selected : \A c \in 0..(res.ncols - 1) :
                IF c <= At0(call.context_dims, s)
                THEN /\ res.axes[<<row[s], c>>].state = "image"
                     /\ res.axes[<<row[s], c>>].title = CellTitle(s, c)
                ELSE res.axes[<<row[s], c>>].state = "off"

\* The first batch of a set's coordinates, as stored: <<axis-1 row, axis-2 row>>.
StoredCoords(X) == IF X.ndim = 3 THEN X.data[1] ELSE X.data

\* A scatter of context or target set sc.set_i shows the set's stored points
\* with the axes exchanged, in raw units when a data processor is given.
ContextScatterReversed(sc, task, plot_target, has_dp) ==
    LET sets == IF plot_target THEN task.X_c \o task.X_t ELSE task.X_c
        X == StoredCoords(At0(sets, sc.set_i))
    IN /\ sc.x = [k \in 1..Len(X[2]) |-> IF has_dp THEN UnnormX2(X[2][k]) ELSE X[2][k]]
       /\ sc.y = [k \in 1..Len(X[1]) |-> IF has_dp THEN UnnormX1(X[1][k]) ELSE X[1][k]]

\* A scatter of candidates shows the first m rows (x1, x2) of the placement
\* table at (x2, x1).
CandidateScatterReversed(sc, X_new_df) ==
    \E m \in 1..Len(X_new_df) :
        /\ sc.x = [k \in 1..m |-> X_new_df[k][2]]
        /\ sc.y = [k \in 1..m |-> X_new_df[k][1]]

\* C3: every overlay draws a point stored as (axis1, axis2) at (axis2, axis1):
\* the scatters of offgrid_context (with or without a data processor, 2-D or
\* batched input), the texts of offgrid_context_observations, and the
\* candidate and context scatters of placements and acquisition_fn.
C3_CoordinatesReversed ==
    /\ Done("offgrid_context") =>
        \A k \in DOMAIN res.scatters :
            ContextScatterReversed(res.scatters[k], call.task, call.plot_target,
                                   call.has_dp)
    /\ Done("offgrid_context_observations") =>
        \A k \in DOMAIN res.texts :
            /\ res.texts[k].x = UnnormX2(call.X_c.data[2][res.texts[k].obs_i + 1])
            /\ res.texts[k].y = UnnormX1(call.X_c.data[1][res.texts[k].obs_i + 1])
    /\ (Done("placements") \/ Done("acquisition_fn")) =>
        \A k \in DOMAIN res.scatters :
            IF res.scatters[k].set_i = -1
            THEN CandidateScatterReversed(res.scatters[k], call.X_new_df)
            ELSE ContextScatterReversed(res.scatters[k], call.task, FALSE, TRUE)

\* C3's case: a batched set is unnormalised and scattered, its two axes
\* holding different coordinates.
C3_Witness ==
    /\ Done("offgrid_context")
    /\ call.has_dp
    /\ \E k \in DOMAIN res.scatters :
        /\ At0(PlottedSets(call.task, call.plot_target), res.scatters[k].set_i).ndim = 3
        /\ res.scatters[k].x # res.scatters[k].y
        /\ Len(res.scatters[k].x) = 2

\* C4: when a format string is supplied, the text offgrid_context_observations
\* draws is the value formatted by it, never the format string itself or an
\* empty string; with "%.1f" the value 3.14159 is drawn as "3.1".
C4_FormatApplied ==
    (Done("offgrid_context_observations") /\ call.format_str.given) =>
        \A k \in DOMAIN res.texts :
            /\ res.texts[k].s # <<>>
            /\ res.texts[k].s # call.format_str.v
            /\ call.format_str.v = <<"%", ".", "1", "f">> =>
                res.texts[k].s = FormatFixed(res.texts[k].value, 1)

\* The dimensions of an acquisition_fn call that are neither the column
\* dimension, nor spatial, nor "time" or "sample".
AF_Unsupported ==
    SeqToSet(call.dims) \ ({call.col_dim, "x1", "x2", "time", "sample"})

\* C5: for a supported array with n column values, acquisition_fn makes a
\* grid of min(max_ncol, n) columns and ceil(n / ncols) rows, draws n panels
\* on the first n axes in the order of the column values, removes the
\* remaining nrows * ncols - n axes, and averages over nothing when the array
\* has only the column and spatial dimensions.
C5_WrappedGrid ==
    (Done("acquisition_fn") /\ AF_Unsupported = {}) =>
        /\ res.ncols = (IF call.max_ncol <= call.n_col_vals THEN call.max_ncol
                        ELSE call.n_col_vals)
        /\ res.nrows * res.ncols >= call.n_col_vals
        /\ (res.nrows - 1) * res.ncols < call.n_col_vals
        /\ Len(res.panels) = call.n_col_vals
        /\ \A i \in DOMAIN res.panels :
            /\ res.panels[i].ax = i - 1
            /\ res.panels[i].col_val = ColVals(call.col_dim, call.n_col_vals, call.iteration)[i]
        /\ res.removed = call.n_col_vals..(res.nrows * res.ncols - 1)
        /\ Len(call.dims) = 3 => res.averaged = <<>>

\* C5 restricted to the calls whose context overlay (line 700) returns: the
\* layout, the panels and the removal of the unused axes are as C5 states.
C5_WrappedGridWhenOverlayReturns ==
    (Done("acquisition_fn") /\ res.status = "ok") => C5_WrappedGrid

\* C6: acquisition_fn raises ValueError naming the first unsupported
\* dimension whenever there is one, before the figure exists and before
\* anything is averaged or drawn; "time" and "sample" are never rejected.
C6_UnsupportedDimRejected ==
    Done("acquisition_fn") =>
        IF AF_Unsupported # {}
        THEN /\ res.status = "ValueError"
             /\ Len(res.error_dim) = 1
             /\ res.error_dim[1] \in AF_Unsupported
             /\ \A k \in DOMAIN call.dims :
                    call.dims[k] = res.error_dim[1] =>
                        \A j \in 1..(k - 1) : call.dims[j] \notin AF_Unsupported
             /\ ~res.fig
             /\ res.averaged = <<>>
             /\ res.panels = <<>> /\ res.scatters = <<>>
        ELSE /\ res.status # "ValueError"
             /\ res.fig

\* C6's case: an array with a "depth" dimension next to "time" is rejected
\* with an error naming "depth".
C6_Witness ==
    /\ Done("acquisition_fn")
    /\ "depth" \in SeqToSet(call.dims)
    /\ "time" \in SeqToSet(call.dims)
    /\ call.col_dim = "iteration"
    /\ res.status = "ValueError"
    /\ res.error_dim = <<"depth">>

\* C7: the channel indices sampled for a layer with n_features channels
\* number min(n_features_per_layer, n_features), lie in 0..n_features-1 and
\* are pairwise different, and the layer's figure has one subplot per index.
C7_SampleWithoutRepeats ==
    (call.op = "feature_maps" /\ pc \in {"layers", "done"} /\ res.layer_i > 0) =>
        LET n_features == At0(res.feature_maps, res.layer_i - 1).n_features
            idxs == res.feature_idxs
        IN /\ Len(idxs) = (IF call.n_features_per_layer <= n_features
                           THEN call.n_features_per_layer ELSE n_features)
           /\ \A i \in DOMAIN idxs : idxs[i] \in 0..(n_features - 1)
           /\ \A i, j \in DOMAIN idxs : i # j => idxs[i] # idxs[j]
           /\ res.figs[res.layer_i].ncols = Len(idxs)
           /\ res.figs[res.layer_i].n_images = Len(idxs)
           /\ res.status = "ok"

\* C7's case: more channels are asked for than the layer has, and the layer
\* has several.
C7_Witness ==
    /\ call.op = "feature_maps" /\ pc = "layers" /\ res.layer_i > 0
    /\ call.n_features_per_layer > At0(res.feature_maps, res.layer_i - 1).n_features
    /\ Len(res.feature_idxs) >= 2

\* The sets an offgrid_context call is to plot: selected and not gridded.
OC_ToPlot ==
    LET sets == IF call.plot_target THEN call.task.X_c \o call.task.X_t
                ELSE call.task.X_c
    IN {i \in 0..(Len(sets) - 1) :
            /\ ~At0(sets, i).gridded
            /\ \/ call.context_set_idxs.kind = "None"
               \/ \E k \in DOMAIN call.context_set_idxs.v : call.context_set_idxs.v[k] = i}

\* C8: offgrid_context does not fail, and every plotted set i, also i >= 5 and
\* target sets at index 5 or more of the combined list, is scattered on every
\* axis with marker and colour number i modulo 5 of "ovs^D" and "kbrgy".
C8_PaletteWraps ==
    Done("offgrid_context") =>
        /\ res.status = "ok"
        /\ \A i \in OC_ToPlot : \A a \in 0..(call.naxes - 1) :
            \E k \in DOMAIN res.scatters :
                /\ res.scatters[k].set_i = i
                /\ res.scatters[k].ax = a
                /\ res.scatters[k].marker = <<"o", "v", "s", "^", "D">>[(i % 5) + 1]
                /\ res.scatters[k].color = <<"k", "b", "r", "g", "y">>[(i % 5) + 1]

\* C9: offgrid_context_observations raises and draws no text when the
\* selected set has a number of variables other than one or is gridded.
C9_RejectedBeforeDrawing ==
    (Done("offgrid_context_observations")
        /\ (Len(call.var_ID) # 1 \/ call.X_c.gridded)) =>
        /\ res.status = "AssertionError"
        /\ res.texts = <<>>

\* C9's case: a gridded single-variable set with 2-D values, inside any extent.
C9_Witness ==
    /\ Done("offgrid_context_observations")
    /\ call.X_c.gridded
    /\ Len(call.var_ID) = 1
    /\ call.Y_c.ndim = 2
    /\ ~call.extent.given
    /\ res.status = "AssertionError"

\* The candidate points drawn on axes a: the scatters of the placement table.
AF_CandidatesOn(a) ==
    {k \in DOMAIN res.scatters : res.scatters[k].set_i = -1 /\ res.scatters[k].ax = a}

\* The rows of the placement table whose index (counted from 0) lies in 0..v.
AF_RowsUpTo(v) ==
    {k \in DOMAIN call.X_new_df : k - 1 \in 0..v}

\* Panel i shows exactly the rows of the table with an index in 0..v, each
\* drawn once with its stored x2 as the horizontal coordinate.
AF_PanelShowsRowsUpTo(i, v) ==
    /\ Cardinality(AF_CandidatesOn(res.panels[i].ax)) = 1
    /\ \A k \in AF_CandidatesOn(res.panels[i].ax) :
            /\ DOMAIN res.scatters[k].x = AF_RowsUpTo(v)
            /\ DOMAIN res.scatters[k].y = AF_RowsUpTo(v)
            /\ \A r \in AF_RowsUpTo(v) :
                    /\ res.scatters[k].x[r] = call.X_new_df[r][2]
                    /\ res.scatters[k].y[r] = call.X_new_df[r][1]

\* C11: in acquisition_fn with the column dimension "iteration" there is one
\* panel per column value v and it overlays exactly the candidate rows whose
\* index lies in 0..v, so each panel's rows contain the previous panel's; with
\* another column dimension every panel overlays the rows 0..k of the single
\* iteration k present, and a call with more than one iteration value and
\* another column dimension fails without overlaying anything.
C11_CandidatesUpToIteration ==
    /\ (Done("acquisition_fn") /\ AF_Unsupported = {} /\ call.col_dim = "iteration") =>
            /\ Len(res.panels) = call.n_col_vals
            /\ \A i \in DOMAIN res.panels :
                    AF_PanelShowsRowsUpTo(i, res.panels[i].col_val)
            /\ \A i \in DOMAIN res.panels : \A j \in DOMAIN res.panels :
                    (i < j) =>
                        \A a \in AF_CandidatesOn(res.panels[i].ax) :
                        \A b \in AF_CandidatesOn(res.panels[j].ax) :
                            /\ DOMAIN res.scatters[a].x \subseteq DOMAIN res.scatters[b].x
                            /\ \A r \in DOMAIN res.scatters[a].x :
                                    /\ res.scatters[a].x[r] = res.scatters[b].x[r]
                                    /\ res.scatters[a].y[r] = res.scatters[b].y[r]
    /\ (Done("acquisition_fn") /\ AF_Unsupported = {} /\ call.col_dim # "iteration"
            /\ call.n_iterations = 1) =>
            /\ Len(res.panels) = call.n_col_vals
            /\ \A i \in DOMAIN res.panels :
                    AF_PanelShowsRowsUpTo(i, call.iteration)
    /\ (Done("acquisition_fn") /\ call.col_dim # "iteration" /\ call.n_iterations > 1) =>
            /\ res.status # "ok"
            /\ \A k \in DOMAIN res.scatters : res.scatters[k].set_i # -1

\* Three iteration panels, starting at iteration 0, over a table of three
\* placements: the panels overlay one, two and three candidates.
C11_Witness ==
    /\ Done("acquisition_fn")
    /\ call.col_dim = "iteration"
    /\ call.iteration = 0
    /\ Len(call.X_new_df) = 3
    /\ Len(res.panels) = 3
    /\ \A i \in 1..3 : \E k \in AF_CandidatesOn(i - 1) : Len(res.scatters[k].x) = i

\* A panel of another column dimension with the single iteration 1 present:
\* two panels, each with the first two candidates.
C11_SingleIterationReached ==
    /\ Done("acquisition_fn")
    /\ call.col_dim = "time"
    /\ call.iteration = 1
    /\ Len(call.X_new_df) = 3
    /\ Len(res.panels) = 2
    /\ \A i \in 1..2 : \E k \in AF_CandidatesOn(i - 1) : Len(res.scatters[k].x) = 2

====
